---- MODULE Spec2Model ----
(***************************************************************************)
(* Model of image_download.py: the multi-mirror, block-parallel download   *)
(* engine.  One worker thread per mirror (worker), one supervisor          *)
(* (download), a shared work queue and a shared status queue, the atomic   *)
(* file writer (create_file), the block planner (make_blocks) and the      *)
(* assembly (gather_blocks).  The disk survives the process; the process   *)
(* can be killed at any step and started again on the same destination.    *)
(***************************************************************************)
EXTENDS Integers, Sequences, FiniteSets, Bags, TLC

\* ------------------------------------------------------------------ bounds
NMirrors == 2        \* number of prefixes handed to download()
MaxSize == 2         \* largest artifact size (bytes) a healthy mirror serves
MaxTimeouts == 1     \* read timeouts the network produces during one run
MaxRuns == 2         \* process starts on the same destination
MaxQueue == 2        \* events waiting on the status queue
MaxPlanSize == 23    \* largest size planned when only the probe phase runs

\* -------------------------------------------------------- program constants
BlockSize == 2       \* block_size of make_blocks (1024*1024 in the program)
NoSize == -1         \* size = None
NoPrefix == 0        \* the None prefix of an unattributed progress event

Mirrors == 1 .. NMirrors
NoBlock == <<>>
NoFile == <<-1>>
NoneEvent == <<>>

VARIABLES
    asize,       \* environment: the artifact's size on a healthy mirror
    up,          \* environment: up[m], mirror m answers every request properly
    diskOk,      \* environment: the local disk never fails a write
    proc,        \* "running" | "exited" | "killed"
    run,         \* number of the current process start
    prev,        \* how the previous process ended ("none" for the first)
    timeouts,    \* read timeouts so far in this run
    files,       \* partial directory: file name -> contents
    partialdir,  \* the partial directory exists
    dest,        \* contents of the destination, or NoFile
    work_queue,
    status_queue,
    wpc,         \* per worker: position in worker()
    held,        \* per worker: the block it took and has neither reported nor put back
    anon,        \* per worker: the O_TMPFILE being written, <<contents, pos>>
    spc,         \* position of download()
    size,
    all_blocks,
    todo,        \* [mirrors, blocks]: the two kinds of members of the set todo
    threads,
    cursor,      \* index of the next block file to unlink
    ui,          \* what the progress reporter has been told
    hist         \* history of the run, for the properties

envVars == <<asize, up, diskOk>>
diskVars == <<files, partialdir, dest>>
workerVars == <<wpc, held, anon>>
supVars == <<spc, size, all_blocks, todo, threads, cursor, ui>>
procVars == <<proc, run, prev>>
vars == <<asize, up, diskOk, proc, run, prev, timeouts, files, partialdir, dest,
          work_queue, status_queue, wpc, held, anon, spc, size, all_blocks,
          todo, threads, cursor, ui, hist>>

\* ------------------------------------------------------------ pure helpers
Zeros(n) == [i \in 1 .. n |-> 0]

\* The artifact's byte at offset i, the same on every mirror; never 0, so
\* that preallocated but unwritten bytes differ from served ones.
Byte(i) == i + 1

\* The bytes of [start, end) of the artifact.
Body(start, end) == [i \in 1 .. (end - start) |-> Byte(start + i - 1)]

RECURSIVE Digits(_)
Digits(n) == IF n < 10 THEN <<n>> ELSE Digits(n \div 10) \o <<n % 10>>

RECURSIVE ZeroPad(_, _)
ZeroPad(d, width) == IF Len(d) >= width THEN d ELSE ZeroPad(<<0>> \o d, width)

\* '{index:0{width}} of {parts}' (the directory is always the partial one)
FileName(index, parts) ==
    <<ZeroPad(Digits(index), Len(Digits(parts))), Digits(parts)>>

\* len(range(0, size, block_size))
RangeLen(n) == Cardinality({j \in 0 .. n : j * BlockSize < n})

\* A planner that forgets min(start + block_size, size).
make_blocks_unclamped(n) ==
    LET parts == (n + BlockSize - 1) \div BlockSize
    IN  [index \in 1 .. RangeLen(n) |->
            LET start == (index - 1) * BlockSize
            IN  <<FileName(index, parts), <<start, start + BlockSize>>>>]

make_blocks(n) ==
    LET parts == (n + BlockSize - 1) \div BlockSize
    IN  [index \in 1 .. RangeLen(n) |->
            LET start == (index - 1) * BlockSize
                end == IF start + BlockSize < n THEN start + BlockSize ELSE n
            IN  <<FileName(index, parts), <<start, end>>>>]

Range(s) == {s[i] : i \in 1 .. Len(s)}
BlockName(b) == b[1]
BlockStart(b) == b[2][1]
BlockEnd(b) == b[2][2]

\* os.copy_file_range(src, result, count, 0, offset) on a sparse result
CopyAt(result, data, count, offset) ==
    LET n == IF Len(result) > offset + count THEN Len(result) ELSE offset + count
    IN  [i \in 1 .. n |->
            IF i > offset /\ i <= offset + count THEN data[i - offset]
            ELSE IF i <= Len(result) THEN result[i]
            ELSE 0]

\* file.write(chunk) at the file position pos
WriteAt(content, chunk, pos) == CopyAt(content, chunk, Len(chunk), pos)

\* A link that replaces an existing file.
LinkFileOverwrites(fs, name, content) == (name :> content) @@ fs

\* os.link() under suppress(FileExistsError): an existing file wins
LinkFile(fs, name, content) ==
    IF name \in DOMAIN fs THEN fs ELSE (name :> content) @@ fs

Unlink(fs, name) == [f \in (DOMAIN fs) \ {name} |-> fs[f]]

TodoEmpty == todo.mirrors = {} /\ todo.blocks = {}

Put(q, e) == Append(q, e)

\* ------------------------------------------------------------------- Init
\* The fields of hist: blockEvents, the bag of blocks for which a 'block'
\* event was put on the status queue; gets, the blocks a ranged GET was
\* issued for; first, sizes, errors, nones: per worker, the kind of its
\* first event and how many size and error events and Nones it has put;
\* reported: per worker, the size it has put in a size event.
HistInit ==
    [blockEvents |-> EmptyBag,
     gets |-> {},
     first |-> [m \in Mirrors |-> "none"],
     sizes |-> [m \in Mirrors |-> 0],
     errors |-> [m \in Mirrors |-> 0],
     nones |-> [m \in Mirrors |-> 0],
     reported |-> [m \in Mirrors |-> NoSize]]

Emitted(h, m, kind) ==
    [h EXCEPT !.first[m] = IF @ = "none" THEN kind ELSE @,
              !.sizes[m] = IF kind = "size" THEN @ + 1 ELSE @,
              !.errors[m] = IF kind = "error" THEN @ + 1 ELSE @,
              !.nones[m] = IF kind = "none" THEN @ + 1 ELSE @]

\* A supervisor that starts with an empty todo.
InitialTodoEmpty == [mirrors |-> {}, blocks |-> {}]

\* Line 144: todo = set(threads).
InitialTodo == [mirrors |-> Mirrors, blocks |-> {}]

\* download() up to the main loop: ui.start(), one started thread per
\* prefix, empty queues, todo = set(threads).
Started(t, wq, sq, pcs, h, a, pc, sz, ab, td, th, c, u, hi) ==
    /\ t = 0
    /\ wq = <<>>
    /\ sq = <<>>
    /\ pcs = [m \in Mirrors |-> "head"]
    /\ h = [m \in Mirrors |-> NoBlock]
    /\ a = [m \in Mirrors |-> <<>>]
    /\ pc = "loop"
    /\ sz = NoSize
    /\ ab = <<>>
    /\ td = InitialTodo
    /\ th = Mirrors
    /\ c = 1
    /\ u = [last |-> "start", starts |-> 1, ends |-> 0, fatal |-> "", after |-> FALSE]
    /\ hi = HistInit

Init ==
    /\ asize \in 0 .. MaxSize
    /\ up \in [Mirrors -> BOOLEAN]
    /\ diskOk \in BOOLEAN
    /\ proc = "running"
    /\ run = 1
    /\ prev = "none"
    /\ files = <<>>
    /\ partialdir = FALSE
    /\ dest = NoFile
    /\ Started(timeouts, work_queue, status_queue, wpc, held, anon, spc, size,
               all_blocks, todo, threads, cursor, ui, hist)

\* ----------------------------------------------------------------- worker
\* The Content-Length a mirror reports: a mirror that is not up may hold a
\* copy one byte longer.
HeadSizes(m) == IF up[m] THEN {asize} ELSE {asize, asize + 1}

HeadErrors == {"500", "Content-Length not reported", "MaxRetryError"}

\* The model holds at most MaxQueue events on the status queue: a worker
\* that has an event to put waits for the supervisor to take one first.
CanPut == Len(status_queue) < MaxQueue

\* A worker that goes on to the block loop after a failed HEAD.
AfterHeadErrorGoesOn == "idle"

\* Lines 56 and 61: return after the error event of the probe.
AfterHeadError == "dead"

\* Lines 53-61 (and 99-100 for a HEAD that exhausts its retries).
WHead(m) ==
    /\ proc = "running"
    /\ wpc[m] = "head"
    /\ CanPut
    /\ \/ \E n \in HeadSizes(m) :
            /\ status_queue' = Put(status_queue, <<m, "size", n>>)
            /\ wpc' = [wpc EXCEPT ![m] = "idle"]
            /\ hist' = [Emitted(hist, m, "size") EXCEPT !.reported[m] = n]
       \/ \E detail \in HeadErrors :
            /\ ~up[m]
            /\ status_queue' = Put(status_queue, <<m, "error", detail>>)
            /\ wpc' = [wpc EXCEPT ![m] = AfterHeadError]
            /\ hist' = Emitted(hist, m, "error")
    /\ UNCHANGED <<envVars, procVars, diskVars, supVars, timeouts, work_queue,
                   held, anon>>

\* A worker that forgets line 87 and keeps its block after the event.
AfterSuccessKeeps(block) == block

\* Line 87: the worker's block after the 'block' event was put.
AfterSuccess(block) == NoBlock

\* A finally clause that does not put the block back.
RequeueDrops(q, block) == q

\* Lines 94-95: what the finally clause leaves on the work queue.
Requeue(q, block) == IF block # NoBlock THEN Put(q, block) ELSE q

BlockEvent(h, m, block) ==
    [Emitted(h, m, "block") EXCEPT !.blockEvents = @ (+) SetToBag({block})]

\* Lines 64-75 and 82-87 (and the finally clause, 92-97, on the path where
\* the file exists): take a block; if its file exists report it, else issue
\* the ranged GET and look at the status.
WTake(m) ==
    /\ proc = "running"
    /\ wpc[m] = "idle"
    /\ work_queue # <<>>
    /\ LET block == Head(work_queue)
           len == BlockEnd(block) - BlockStart(block)
       IN  IF BlockName(block) \in DOMAIN files
           THEN /\ CanPut
                /\ status_queue' =
                     Put(Put(status_queue, <<NoPrefix, "progress", len>>),
                         <<m, "block", block>>)
                /\ hist' = BlockEvent(hist, m, block)
                /\ work_queue' = Requeue(Tail(work_queue), AfterSuccess(block))
                /\ UNCHANGED <<wpc, held, anon, partialdir>>
           ELSE /\ work_queue' = Tail(work_queue)
                /\ held' = [held EXCEPT ![m] = block]
                /\ \/ /\ wpc' = [wpc EXCEPT ![m] = "stream"]
                      /\ anon' = [anon EXCEPT ![m] = <<Zeros(len), 0>>]
                      /\ partialdir' = TRUE
                      /\ hist' = [hist EXCEPT !.gets = @ \cup {block}]
                      /\ UNCHANGED status_queue
                   \/ /\ ~up[m]
                      /\ CanPut
                      /\ status_queue' = Put(status_queue, <<m, "error", "500">>)
                      /\ wpc' = [wpc EXCEPT ![m] = "finally_return"]
                      /\ hist' = [Emitted(hist, m, "error") EXCEPT
                                     !.gets = @ \cup {block}]
                      /\ UNCHANGED <<anon, partialdir>>
                   \/ /\ ~up[m]
                      /\ wpc' = [wpc EXCEPT ![m] = "finally_retry"]
                      /\ hist' = [hist EXCEPT !.gets = @ \cup {block}]
                      /\ UNCHANGED <<status_queue, anon, partialdir>>
    /\ UNCHANGED <<envVars, procVars, files, dest, supVars, timeouts>>

\* Lines 78-81 with create_file's lines 27-38, and the clauses the step
\* ends in (86-87, 89-90, 92-97): one step of the body stream.
WStream(m) ==
    /\ proc = "running"
    /\ wpc[m] = "stream"
    /\ LET block == held[m]
           len == BlockEnd(block) - BlockStart(block)
           content == anon[m][1]
           pos == anon[m][2]
       IN  \/ /\ pos < len                    \* a chunk: one byte in the model
              /\ CanPut
              /\ status_queue' = Put(status_queue, <<m, "progress", 1>>)
              /\ anon' = [anon EXCEPT ![m] =
                    <<WriteAt(content, <<Byte(BlockStart(block) + pos)>>, pos),
                      pos + 1>>]
              /\ UNCHANGED <<wpc, held, files, timeouts, hist, work_queue>>
           \/ /\ pos = len \/ ~up[m]           \* the stream ends
              /\ CanPut
              /\ files' = LinkFile(files, BlockName(block), content)
              /\ status_queue' = Put(status_queue, <<m, "block", block>>)
              /\ hist' = BlockEvent(hist, m, block)
              /\ work_queue' = Requeue(work_queue, AfterSuccess(block))
              /\ held' = [held EXCEPT ![m] = NoBlock]
              /\ wpc' = [wpc EXCEPT ![m] = "idle"]
              /\ anon' = [anon EXCEPT ![m] = <<>>]
              /\ UNCHANGED timeouts
           \/ /\ timeouts < MaxTimeouts        \* ReadTimeoutError
              /\ timeouts' = timeouts + 1
              /\ work_queue' = Requeue(work_queue, block)
              /\ held' = [held EXCEPT ![m] = NoBlock]
              /\ wpc' = [wpc EXCEPT ![m] = "idle"]
              /\ anon' = [anon EXCEPT ![m] = <<>>]
              /\ UNCHANGED <<status_queue, files, hist>>
           \/ /\ (~up[m] /\ pos < len) \/ ~diskOk   \* any other exception
              /\ work_queue' = Requeue(work_queue, block)
              /\ held' = [held EXCEPT ![m] = NoBlock]
              /\ wpc' = [wpc EXCEPT ![m] = "except_exc"]
              /\ anon' = [anon EXCEPT ![m] = <<>>]
              /\ UNCHANGED <<status_queue, files, timeouts, hist>>
    /\ UNCHANGED <<envVars, procVars, partialdir, dest, supVars>>

\* Lines 92-97 after the GET itself failed: the finally clause on the way
\* out of the return (line 75) or of the MaxRetryError.
WFinally(m) ==
    /\ proc = "running"
    /\ wpc[m] \in {"finally_return", "finally_retry"}
    /\ work_queue' = Requeue(work_queue, held[m])
    /\ held' = [held EXCEPT ![m] = NoBlock]
    /\ wpc' = [wpc EXCEPT ![m] = IF @ = "finally_return" THEN "dead"
                                 ELSE "except_retry"]
    /\ UNCHANGED <<envVars, procVars, diskVars, supVars, timeouts, status_queue,
                   anon, hist>>

\* Lines 99-104: the handlers of the outer try.
WExcept(m) ==
    /\ proc = "running"
    /\ CanPut
    /\ \/ /\ wpc[m] = "except_retry"
          /\ status_queue' = Put(status_queue, <<m, "error", "MaxRetryError">>)
          /\ hist' = Emitted(hist, m, "error")
       \/ /\ wpc[m] = "except_exc"
          /\ status_queue' = Put(status_queue, NoneEvent)
          /\ hist' = Emitted(hist, m, "none")
    /\ wpc' = [wpc EXCEPT ![m] = "dead"]
    /\ UNCHANGED <<envVars, procVars, diskVars, supVars, timeouts, work_queue,
                   held, anon>>

\* ------------------------------------------------------------- supervisor
\* One call of a progress-reporter operation.  after records a call made
\* once finish() or fatal() had been called.
Report(u, op) ==
    [u EXCEPT !.last = op,
              !.after = @ \/ u.ends > 0,
              !.ends = IF op \in {"finish", "fatal"} THEN @ + 1 ELSE @]

\* A fatal() that is not followed by return: the loop refreshes once more.
FatalThenRefresh(u, msg) ==
    Report([Report(u, "fatal") EXCEPT !.fatal = msg], "refresh")

Fatal(u, msg) == [Report(u, "fatal") EXCEPT !.fatal = msg]

\* Line 147 and 149: the loop is entered and an event is taken.
SupTakes(report) ==
    /\ proc = "running"
    /\ spc = "loop"
    /\ ~TodoEmpty
    /\ status_queue # <<>>
    /\ Head(status_queue) # NoneEvent
    /\ Head(status_queue)[2] = report

\* A first size report that does not create the partial directory.
MakeDirsSkipped(exists) == exists

\* Line 155: os.makedirs(destination + '.partial', exist_ok=True).
MakeDirs(exists) == TRUE

\* A planning loop that puts every block on the work queue twice.
PlannedTwice(q, blocks) == q \o blocks \o blocks

\* Lines 156-159: what the first size report puts on the work queue.
Planned(q, blocks) == q \o blocks

\* A first size report that forgets todo.add(block).
TodoAfterSizeMirrorOnly(td, prefix, blocks) ==
    [mirrors |-> td.mirrors \ {prefix}, blocks |-> td.blocks]

\* Lines 159 and 165: todo after the first size report.
TodoAfterSize(td, prefix, blocks) ==
    [mirrors |-> td.mirrors \ {prefix}, blocks |-> td.blocks \cup Range(blocks)]

\* Lines 151-165.
SupSize ==
    /\ SupTakes("size")
    /\ LET prefix == Head(status_queue)[1]
           detail == Head(status_queue)[3]
           blocks == make_blocks(detail)
       IN  /\ status_queue' = Tail(status_queue)
           /\ IF size = NoSize
              THEN /\ partialdir' = MakeDirs(partialdir)
                   /\ all_blocks' = all_blocks \o blocks
                   /\ work_queue' = Planned(work_queue, blocks)
                   /\ size' = detail
                   /\ todo' = TodoAfterSize(todo, prefix, blocks)
                   /\ spc' = IF prefix \in todo.mirrors THEN "loop" ELSE "crashed"
                   /\ ui' = Report(Report(ui, "report_size"), "refresh")
              ELSE IF detail # size
              THEN /\ ui' = Fatal(Report(ui, "report_size"), "inconsistent size")
                   /\ spc' = "fatal"
                   /\ UNCHANGED <<partialdir, all_blocks, work_queue, size, todo>>
              ELSE /\ todo' = [todo EXCEPT !.mirrors = @ \ {prefix}]
                   /\ spc' = IF prefix \in todo.mirrors THEN "loop" ELSE "crashed"
                   /\ ui' = Report(Report(ui, "report_size"), "refresh")
                   /\ UNCHANGED <<partialdir, all_blocks, work_queue, size>>
    /\ UNCHANGED <<envVars, procVars, files, dest, workerVars, timeouts, threads,
                   cursor, hist>>

\* Line 171: todo.remove(prefix) raises KeyError for a prefix not in todo.
RemovePrefixFails(prefix) == prefix \notin todo.mirrors

\* Lines 167-175.  threads[prefix].join() waits for the worker to end.
SupError ==
    /\ SupTakes("error")
    /\ LET prefix == Head(status_queue)[1]
       IN  /\ wpc[prefix] = "dead"
           /\ status_queue' = Tail(status_queue)
           /\ threads' = threads \ {prefix}
           /\ IF RemovePrefixFails(prefix)
              THEN /\ spc' = "crashed"
                   /\ ui' = Report(ui, "report_error")
                   /\ UNCHANGED todo
              ELSE /\ todo' = [todo EXCEPT !.mirrors = @ \ {prefix}]
                   /\ IF threads' = {}
                      THEN /\ spc' = "fatal"
                           /\ ui' = Fatal(Report(ui, "report_error"),
                                          "unable to download file from any host")
                      ELSE /\ spc' = "loop"
                           /\ ui' = Report(Report(ui, "report_error"), "refresh")
    /\ UNCHANGED <<envVars, procVars, diskVars, workerVars, timeouts, work_queue,
                   size, all_blocks, cursor, hist>>

\* Lines 177-178.
SupProgress ==
    /\ SupTakes("progress")
    /\ status_queue' = Tail(status_queue)
    /\ ui' = Report(Report(ui, "report_progress"), "refresh")
    /\ UNCHANGED <<envVars, procVars, diskVars, workerVars, timeouts, work_queue,
                   spc, size, all_blocks, todo, threads, cursor, hist>>

\* Lines 180-182: todo.remove(detail) raises KeyError for a block not in todo.
SupBlock ==
    /\ SupTakes("block")
    /\ LET detail == Head(status_queue)[3]
       IN  /\ status_queue' = Tail(status_queue)
           /\ IF detail \in todo.blocks
              THEN /\ todo' = [todo EXCEPT !.blocks = @ \ {detail}]
                   /\ spc' = "loop"
                   /\ ui' = Report(Report(ui, "report_block"), "refresh")
              ELSE /\ spc' = "crashed"
                   /\ ui' = Report(ui, "report_block")
                   /\ UNCHANGED todo
    /\ UNCHANGED <<envVars, procVars, diskVars, workerVars, timeouts, work_queue,
                   size, all_blocks, threads, cursor, hist>>

\* Line 149 on the None a worker put (line 104): unpacking it raises.
SupNone ==
    /\ proc = "running"
    /\ spc = "loop"
    /\ ~TodoEmpty
    /\ status_queue # <<>>
    /\ Head(status_queue) = NoneEvent
    /\ status_queue' = Tail(status_queue)
    /\ spc' = "crashed"
    /\ UNCHANGED <<envVars, procVars, diskVars, workerVars, timeouts, work_queue,
                   size, all_blocks, todo, threads, cursor, ui, hist>>

\* Lines 189-190: queue.Empty after the one-second timeout.
SupTimeout ==
    /\ proc = "running"
    /\ spc = "loop"
    /\ ~TodoEmpty
    /\ status_queue = <<>>
    /\ ui' = Report(ui, "refresh")
    /\ UNCHANGED <<envVars, procVars, diskVars, workerVars, timeouts, work_queue,
                   status_queue, spc, size, all_blocks, todo, threads, cursor, hist>>

\* ---------------------------------------------------------------- assembly
Failure == <<-2>>

\* Lines 118-124: the copies of gather_blocks; Failure when a block file is
\* missing (open raises) or has not the size of its range (the assert).
RECURSIVE Gathered(_, _, _)
Gathered(result, blocks, fs) ==
    IF blocks = <<>> THEN result
    ELSE LET b == Head(blocks)
         IN  IF BlockName(b) \notin DOMAIN fs THEN Failure
             ELSE IF Len(fs[BlockName(b)]) # BlockEnd(b) - BlockStart(b) THEN Failure
             ELSE Gathered(CopyAt(result, fs[BlockName(b)], Len(fs[BlockName(b)]),
                                  BlockStart(b)),
                           Tail(blocks), fs)

\* A link that replaces an existing destination.
LinkDestOverwrites(old, result) == result

\* Line 36 for the destination: os.link under suppress(FileExistsError).
LinkDest(old, result) == IF old = NoFile THEN result ELSE old

\* Lines 147 (todo is empty) and 193.
SupGather ==
    /\ proc = "running"
    /\ spc = "loop"
    /\ TodoEmpty
    /\ LET result == Gathered(<<>>, all_blocks, files)
       IN  IF result = Failure
           THEN /\ spc' = "crashed"
                /\ UNCHANGED dest
           ELSE /\ spc' = "unlink"
                /\ dest' = LinkDest(dest, result)
    /\ UNCHANGED <<envVars, procVars, files, partialdir, workerVars, timeouts,
                   work_queue, status_queue, size, all_blocks, todo, threads,
                   cursor, ui, hist>>

\* Lines 196-197: one os.unlink.
SupUnlink ==
    /\ proc = "running"
    /\ spc = "unlink"
    /\ cursor <= Len(all_blocks)
    /\ IF BlockName(all_blocks[cursor]) \in DOMAIN files
       THEN /\ files' = Unlink(files, BlockName(all_blocks[cursor]))
            /\ cursor' = cursor + 1
            /\ UNCHANGED spc
       ELSE /\ spc' = "crashed"
            /\ UNCHANGED <<files, cursor>>
    /\ UNCHANGED <<envVars, procVars, partialdir, dest, workerVars, timeouts,
                   work_queue, status_queue, size, all_blocks, todo, threads,
                   ui, hist>>

\* Lines 198-201: os.rmdir raises on a missing or non-empty directory.
SupFinish ==
    /\ proc = "running"
    /\ spc = "unlink"
    /\ cursor > Len(all_blocks)
    /\ IF partialdir /\ DOMAIN files = {}
       THEN /\ partialdir' = FALSE
            /\ spc' = "finished"
            /\ ui' = Report(ui, "finish")
       ELSE /\ spc' = "crashed"
            /\ UNCHANGED <<partialdir, ui>>
    /\ UNCHANGED <<envVars, procVars, files, dest, workerVars, timeouts,
                   work_queue, status_queue, size, all_blocks, todo, threads,
                   cursor, hist>>

\* ------------------------------------------------------------- the process
\* The end of the process takes its threads and its memory with it; how
\* download() ended (spc) and what the reporter was told are kept.
Gone ==
    /\ work_queue' = <<>>
    /\ status_queue' = <<>>
    /\ wpc' = [m \in Mirrors |-> "dead"]
    /\ held' = [m \in Mirrors |-> NoBlock]
    /\ anon' = [m \in Mirrors |-> <<>>]
    /\ size' = NoSize
    /\ all_blocks' = <<>>
    /\ todo' = [mirrors |-> {}, blocks |-> {}]
    /\ threads' = {}
    /\ cursor' = 1
    /\ timeouts' = 0
    /\ hist' = HistInit

\* The process is killed while download() runs.
Kill ==
    /\ proc = "running"
    /\ spc \in {"loop", "unlink"}
    /\ proc' = "killed"
    /\ Gone
    /\ UNCHANGED <<envVars, diskVars, run, prev, spc, ui>>

\* download() has returned or raised, and the process ends; the daemon
\* threads end with it.
Exit ==
    /\ proc = "running"
    /\ spc \in {"finished", "fatal", "crashed"}
    /\ proc' = "exited"
    /\ Gone
    /\ UNCHANGED <<envVars, diskVars, run, prev, spc, ui>>

\* The program is started again on the same destination, after a run that
\* succeeded (a run that did not succeed is not resumed).
Restart ==
    /\ proc = "exited"
    /\ spc = "finished"
    /\ run < MaxRuns
    /\ proc' = "running"
    /\ run' = run + 1
    /\ prev' = IF proc = "killed" THEN "killed" ELSE spc
    /\ Started(timeouts', work_queue', status_queue', wpc', held', anon', spc',
               size', all_blocks', todo', threads', cursor', ui', hist')
    /\ UNCHANGED <<envVars, diskVars>>

Next ==
    \/ \E m \in Mirrors : WHead(m)
    \/ \E m \in Mirrors : WTake(m)
    \/ \E m \in Mirrors : WStream(m)
    \/ \E m \in Mirrors : WFinally(m)
    \/ \E m \in Mirrors : WExcept(m)
    \/ SupSize
    \/ SupError
    \/ SupProgress
    \/ SupBlock
    \/ SupNone
    \/ SupTimeout
    \/ SupGather
    \/ SupUnlink
    \/ SupFinish
    \/ Kill
    \/ Exit
    \/ Restart

Spec == Init /\ [][Next]_vars

\* The probe phase alone (HEAD, size and error events, planning), for
\* artifacts of up to MaxPlanSize bytes.
PlanInit ==
    /\ asize \in 0 .. MaxPlanSize
    /\ up \in [Mirrors -> BOOLEAN]
    /\ diskOk = TRUE
    /\ proc = "running"
    /\ run = 1
    /\ prev = "none"
    /\ files = <<>>
    /\ partialdir = FALSE
    /\ dest = NoFile
    /\ Started(timeouts, work_queue, status_queue, wpc, held, anon, spc, size,
               all_blocks, todo, threads, cursor, ui, hist)

PlanNext ==
    \/ \E m \in Mirrors : WHead(m)
    \/ SupSize
    \/ SupError

PlanSpec == PlanInit /\ [][PlanNext]_vars

\* create_file alone: each of two callers opens an anonymous file for one
\* of two paths of the partial directory, writes to it, and leaves the
\* scope with or without an error.
CfBlocks == Range(make_blocks(MaxSize + 1))
CfBytes == {Byte(i) : i \in 0 .. 1}

\* Lines 19-27: makedirs, O_TMPFILE, posix_fallocate, yield.
CfEnter(m) ==
    /\ wpc[m] = "idle"
    /\ \E b \in CfBlocks :
          /\ held' = [held EXCEPT ![m] = b]
          /\ anon' = [anon EXCEPT ![m] = <<Zeros(BlockEnd(b) - BlockStart(b)), 0>>]
    /\ wpc' = [wpc EXCEPT ![m] = "stream"]
    /\ partialdir' = TRUE
    /\ UNCHANGED <<envVars, procVars, files, dest, supVars, timeouts,
                   work_queue, status_queue, hist>>

\* Line 27: the caller writes to the yielded file.
CfWrite(m) ==
    /\ wpc[m] = "stream"
    /\ anon[m][2] < Len(anon[m][1])
    /\ \E c \in CfBytes :
          anon' = [anon EXCEPT ![m] = <<WriteAt(anon[m][1], <<c>>, anon[m][2]),
                                        anon[m][2] + 1>>]
    /\ UNCHANGED <<envVars, procVars, diskVars, supVars, timeouts, work_queue,
                   status_queue, wpc, held, hist>>

\* Lines 29-38: the scope exits without error.
CfExit(m) ==
    /\ wpc[m] = "stream"
    /\ files' = LinkFile(files, BlockName(held[m]), anon[m][1])
    /\ wpc' = [wpc EXCEPT ![m] = "idle"]
    /\ held' = [held EXCEPT ![m] = NoBlock]
    /\ anon' = [anon EXCEPT ![m] = <<>>]
    /\ UNCHANGED <<envVars, procVars, partialdir, dest, supVars, timeouts,
                   work_queue, status_queue, hist>>

\* Lines 37-38: the scope exits with an error; only the finally clause runs.
CfRaise(m) ==
    /\ wpc[m] = "stream"
    /\ wpc' = [wpc EXCEPT ![m] = "idle"]
    /\ held' = [held EXCEPT ![m] = NoBlock]
    /\ anon' = [anon EXCEPT ![m] = <<>>]
    /\ UNCHANGED <<envVars, procVars, diskVars, supVars, timeouts, work_queue,
                   status_queue, hist>>

CreateInit ==
    /\ asize = MaxSize
    /\ up = [m \in Mirrors |-> TRUE]
    /\ diskOk = TRUE
    /\ proc = "running"
    /\ run = 1
    /\ prev = "none"
    /\ files = <<>>
    /\ partialdir = FALSE
    /\ dest = NoFile
    /\ timeouts = 0
    /\ work_queue = <<>>
    /\ status_queue = <<>>
    /\ wpc = [m \in Mirrors |-> "idle"]
    /\ held = [m \in Mirrors |-> NoBlock]
    /\ anon = [m \in Mirrors |-> <<>>]
    /\ spc = "loop"
    /\ size = NoSize
    /\ all_blocks = <<>>
    /\ todo = InitialTodo
    /\ threads = Mirrors
    /\ cursor = 1
    /\ ui = [last |-> "start", starts |-> 1, ends |-> 0, fatal |-> "", after |-> FALSE]
    /\ hist = HistInit

CreateNext ==
    \/ \E m \in Mirrors : CfEnter(m)
    \/ \E m \in Mirrors : CfWrite(m)
    \/ \E m \in Mirrors : CfExit(m)
    \/ \E m \in Mirrors : CfRaise(m)

CreateSpec == CreateInit /\ [][CreateNext]_vars

\* ------------------------------------------------------------- properties
Running == proc = "running"

\* How often block b is on the work queue, and which workers hold it.
InQueue(b) == Cardinality({i \in 1 .. Len(work_queue) : work_queue[i] = b})
Holders(b) == {m \in Mirrors : held[m] = b}
Reported(b) == CopiesIn(b, hist.blockEvents)

\* The supervisor takes an error event of a mirror that has reported its
\* size, while another worker is still in threads.
ServingError ==
    /\ SupError
    /\ hist.sizes[Head(status_queue)[1]] > 0
    /\ threads \ {Head(status_queue)[1]} # {}

\* C1: an error event from a mirror that has already reported its size,
\* taken while at least one other worker is alive, leaves the supervisor in
\* its main loop: it ends the run neither as a fatal nor as a crash.
C1_ServingErrorKeepsLoop == [][ServingError => spc' = "loop"]_vars

\* C2: no block gets more than one 'block' event in a run; when download()
\* reaches finish() every planned block got exactly one; and every 'block'
\* event waiting on the status queue names a block still in todo, so that
\* todo.remove(block) never raises.
C2_BlockEventsOnce ==
    /\ \A b \in BagToSet(hist.blockEvents) : Reported(b) = 1
    /\ (Running /\ spc = "finished") =>
          \A b \in Range(all_blocks) : Reported(b) = 1
    /\ \A i \in 1 .. Len(status_queue) :
          (status_queue[i] # NoneEvent /\ status_queue[i][2] = "block") =>
              status_queue[i][3] \in todo.blocks
    /\ ~(spc = "crashed" /\ ui.last = "report_block")

\* A run with two blocks and a read timeout has reached finish().
C2_Witness ==
    /\ Running
    /\ spc = "finished"
    /\ Len(all_blocks) = 2
    /\ timeouts = 1

\* C3: once the blocks are planned, every block without a 'block' event is
\* owned in exactly one place, either once on the work queue or by exactly
\* one worker; a worker that is not handling a block (waiting for one,
\* unwinding after its finally clause, or terminated) holds none.
C3_SingleOwner ==
    /\ \A b \in Range(all_blocks) :
          Reported(b) = 0 => InQueue(b) + Cardinality(Holders(b)) = 1
    /\ \A m \in Mirrors :
          wpc[m] \in {"head", "idle", "except_retry", "except_exc", "dead"} =>
              held[m] = NoBlock

\* A worker has died at a GET and the block it had taken is back on the
\* work queue while another block is held by the other worker.
C3_Witness ==
    /\ \E m \in Mirrors : wpc[m] = "dead" /\ hist.sizes[m] = 1 /\ hist.errors[m] = 1
    /\ \E b \in hist.gets : InQueue(b) = 1
    /\ \E m \in Mirrors : held[m] # NoBlock

\* Exactly one mirror is up, the disk works, every size a mirror reported is
\* the size the healthy mirror serves, no worker hit an unexpected
\* exception and every block file holds its range.
FilesExact ==
    \A b \in Range(all_blocks) :
        BlockName(b) \in DOMAIN files =>
            files[BlockName(b)] = Body(BlockStart(b), BlockEnd(b))
OneMirrorUp ==
    /\ Cardinality({m \in Mirrors : up[m]}) = 1
    /\ diskOk
    /\ \A m \in Mirrors : hist.reported[m] \in {NoSize, asize}
    /\ \A m \in Mirrors : hist.nones[m] = 0
    /\ FilesExact

\* C4: with exactly one mirror up and every other mirror failing at HEAD or
\* at a GET after it reported the same size, the run eventually completes
\* successfully; so download() never ends otherwise: the supervisor stops
\* neither with a fatal nor with an uncaught exception.
C4_OneMirrorNeverFails ==
    (Running /\ OneMirrorUp) => spc \notin {"fatal", "crashed"}

\* C5: every block file that exists at its partial path holds exactly the
\* bytes of the block's range, however the GET body stream ended; and a
\* 'block' event is put only for a block whose complete file exists.
C5_BlockFilesExact ==
    /\ FilesExact
    /\ \A i \in 1 .. Len(status_queue) :
          (status_queue[i] # NoneEvent /\ status_queue[i][2] = "block") =>
              LET b == status_queue[i][3]
              IN  BlockName(b) \in DOMAIN files =>
                      files[BlockName(b)] = Body(BlockStart(b), BlockEnd(b))

\* C6: in a run started without a destination, the destination either does
\* not exist or holds the complete final contents of [0, size), also after
\* a kill or a fatal; it is linked only on leaving the main loop with todo
\* empty.
C6_DestAtomic ==
    (run = 1 /\ dest # NoFile) =>
        /\ dest = Body(0, Len(dest))
        /\ size # NoSize => Len(dest) = size
        /\ spc \in {"unlink", "finished"}

\* Two mirrors have put size events with different sizes, and no worker hit
\* an unexpected exception.
SizesDisagree ==
    /\ \E m, n \in Mirrors :
          /\ hist.reported[m] # NoSize
          /\ hist.reported[n] # NoSize
          /\ hist.reported[m] # hist.reported[n]
    /\ \A m \in Mirrors : hist.nones[m] = 0

\* C7: once two mirrors have reported different sizes the supervisor leaves
\* its main loop only through fatal('inconsistent size'); it never
\* assembles the destination and never emits finish().
C7_SizeDisagreementIsFatal ==
    [][(Running /\ spc = "loop" /\ SizesDisagree /\ proc' = "running") =>
          \/ spc' = "loop"
          \/ spc' = "fatal" /\ ui'.fatal = "inconsistent size"]_vars

\* C8: the error event that leaves no worker in threads makes the
\* supervisor emit fatal('unable to download file from any host') and
\* return, creating no destination and emitting no finish().
C8_LastErrorIsFatal ==
    [][(SupError /\ threads' = {}) =>
          /\ spc' = "fatal"
          /\ ui'.fatal = "unable to download file from any host"
          /\ ui'.last = "fatal"
          /\ dest' = dest]_vars

\* C9 as stated: a run started right after a successful one issues no
\* ranged GET for any block.
C9_NoRedownload == run >= 2 => hist.gets = {}

\* C9 as amended: a run started right after a successful one never changes
\* the existing destination file, but it does not short-circuit: it plans
\* the blocks again, and when it reaches finish() it has issued a ranged GET
\* for every planned block.
C9_RerunKeepsDest ==
    [][/\ run' >= 2 => dest' = dest
       /\ (run' >= 2 /\ proc' = "running" /\ spc' = "finished") =>
              hist'.gets = Range(all_blocks')]_vars

\* A second run has downloaded its blocks again and reached finish().
C9_Witness ==
    /\ run = 2
    /\ Running
    /\ spc = "finished"
    /\ all_blocks # <<>>
    /\ hist.gets = Range(all_blocks)
    /\ dest # NoFile

\* The supervisor's memory survives the step (no kill, exit or new run).
SameRun == proc = "running" /\ proc' = "running" /\ run' = run

\* C10: the supervisor starts assembly only with the size known, todo empty,
\* a worker still in threads and every planned block's file present; a
\* block leaves todo only at the 'block' event for it, a mirror only at its
\* own size or error event.
C10_AssemblyGuard ==
    [][/\ SupGather =>
              /\ size # NoSize
              /\ TodoEmpty
              /\ threads # {}
              /\ \A b \in Range(all_blocks) : BlockName(b) \in DOMAIN files
       /\ SameRun =>
              /\ \A b \in todo.blocks \ todo'.blocks :
                    SupBlock /\ Head(status_queue)[3] = b
              /\ \A p \in todo.mirrors \ todo'.mirrors :
                    /\ SupSize \/ SupError
                    /\ Head(status_queue)[1] = p]_vars

\* Assembly has happened for two blocks after one worker was dropped.
C10_Witness ==
    /\ Running
    /\ spc = "unlink"
    /\ Len(all_blocks) = 2
    /\ Cardinality(threads) < NMirrors
    /\ dest # NoFile

\* The number a sequence of decimal digits denotes.
RECURSIVE DigitsValue(_)
DigitsValue(d) ==
    IF d = <<>> THEN 0
    ELSE 10 * DigitsValue(SubSeq(d, 1, Len(d) - 1)) + d[Len(d)]

\* blocks is a partition of [0, n) into consecutive ranges of BlockSize
\* bytes, the last one shorter if need be, named by their 1-based index.
BlocksPartition(blocks, n) ==
    LET k == Len(blocks)
    IN  /\ k * BlockSize >= n
        /\ (k - 1) * BlockSize < n
        /\ BlockStart(blocks[1]) = 0
        /\ BlockEnd(blocks[k]) = n
        /\ \A i \in 1 .. k - 1 :
              /\ BlockEnd(blocks[i]) = BlockStart(blocks[i + 1])
              /\ BlockEnd(blocks[i]) - BlockStart(blocks[i]) = BlockSize
        /\ BlockEnd(blocks[k]) - BlockStart(blocks[k]) \in 1 .. BlockSize
        /\ \A i \in 1 .. k :
              /\ DigitsValue(BlockName(blocks[i])[1]) = i
              /\ DigitsValue(BlockName(blocks[i])[2]) = k
              /\ Len(BlockName(blocks[i])[1]) = Len(BlockName(blocks[k])[1])
        /\ \A i, j \in 1 .. k :
              i # j => BlockName(blocks[i]) # BlockName(blocks[j])

\* C11: for every size > 0 the planned blocks are ceil(size/BlockSize)
\* blocks with 1-based consecutive indexes whose ranges partition
\* [0, size): first start 0, last end size, each end the next start, all but
\* the last of BlockSize bytes, the last of 1 to BlockSize bytes, and with
\* pairwise distinct file names.
C11_BlocksPartition ==
    (size # NoSize /\ size > 0) => BlocksPartition(all_blocks, size)

\* A size that is no multiple of the block size was planned into ten or
\* more blocks (the index is zero-padded).
C11_Witness ==
    /\ size # NoSize
    /\ size % BlockSize # 0
    /\ Len(all_blocks) >= 10
    /\ Len(BlockName(all_blocks[1])[1]) = 2

\* C12: the partial directory does not exist before the first size event
\* is processed and exists from then until assembly has finished; after
\* finish() neither a block file nor the directory remains; after a fatal
\* with the size known the directory and every completed block file are
\* still there.
C12_PartialDirLifecycle ==
    /\ (Running /\ size = NoSize) => (~partialdir /\ DOMAIN files = {})
    /\ (Running /\ size # NoSize /\ spc \in {"loop", "unlink"}) => partialdir
    /\ spc = "finished" => (~partialdir /\ DOMAIN files = {})
    /\ (Running /\ spc = "fatal" /\ size # NoSize) =>
          /\ partialdir
          /\ \A b \in Range(all_blocks) :
                Reported(b) >= 1 => BlockName(b) \in DOMAIN files
    /\ (spc = "fatal" /\ ui.fatal = "inconsistent size") => partialdir

\* A run has ended with a fatal after a block file was completed.
C12_Witness ==
    /\ Running
    /\ spc = "fatal"
    /\ size # NoSize
    /\ \E b \in Range(all_blocks) :
          Reported(b) = 1 /\ BlockName(b) \in DOMAIN files

\* Worker m's body stream ends in a read timeout in this step (only that
\* step counts a timeout).
ReadTimeout(m) ==
    /\ wpc[m] = "stream"
    /\ timeouts' = timeouts + 1
    /\ held'[m] # held[m]

\* C13: a read timeout while a worker streams a block's body does not end
\* the worker; it puts neither an error nor a block event (nothing at all
\* is put on the status queue); the anonymous file is dropped and no file
\* appears at the block's path; the block goes back on the work queue; and
\* the worker is back at taking the next block.
C13_ReadTimeoutRetries ==
    [][\A m \in Mirrors :
          ReadTimeout(m) =>
              /\ wpc'[m] = "idle"
              /\ status_queue' = status_queue
              /\ hist'.errors = hist.errors
              /\ hist'.blockEvents = hist.blockEvents
              /\ files' = files
              /\ anon'[m] = <<>>
              /\ held'[m] = NoBlock
              /\ work_queue' = Append(work_queue, held[m])]_vars

\* After a read timeout in the middle of a body, the block is on the work
\* queue again, has no file and no 'block' event, and its worker is idle.
C13_Witness ==
    /\ timeouts = 1
    /\ \E b \in hist.gets :
          /\ InQueue(b) = 1
          /\ BlockName(b) \notin DOMAIN files
          /\ Reported(b) = 0
    /\ \A m \in Mirrors : wpc[m] = "idle" /\ hist.errors[m] = 0
    /\ \E i \in 1 .. Len(status_queue) : status_queue[i][2] = "progress"

\* A worker has hit a disk I/O failure while writing a block: it is on its
\* way to the handler of line 102, or has put its None.
DiskFailed ==
    /\ ~diskOk
    /\ \E m \in Mirrors : wpc[m] = "except_exc" \/ hist.nones[m] > 0

\* C14: after a worker hit a disk I/O failure while writing a block, the
\* run never emits finish(): it does not report success (not even when
\* every block was then served in full and the destination is complete).
C14_DiskFailureNeverFinishes ==
    (Running /\ DiskFailed /\ dest = Body(0, asize)) =>
        ~(spc = "finished" /\ ui.last = "finish")

\* C15: whenever the supervisor leaves its main loop because todo is empty
\* (and from then on), the work queue is empty and no worker holds a block;
\* and a block for which a 'block' event was put is never on the work queue
\* again nor held by a worker.
C15_QueueEmptyAtAssembly ==
    /\ (Running /\ TodoEmpty /\ spc \in {"loop", "unlink", "finished"}) =>
          /\ work_queue = <<>>
          /\ \A m \in Mirrors : held[m] = NoBlock
    /\ \A b \in Range(all_blocks) :
          Reported(b) >= 1 => (InQueue(b) = 0 /\ Holders(b) = {})

\* The loop was left with todo empty after a block had been re-enqueued by
\* a read timeout and completed later.
C15_Witness ==
    /\ Running
    /\ spc = "unlink"
    /\ TodoEmpty
    /\ Len(all_blocks) = 2
    /\ timeouts = 1
    /\ work_queue = <<>>

\* What holds of worker m's events in every state of a run.
ProbeOrder(m) ==
    /\ hist.first[m] \in {"none", "size", "error"}
    /\ hist.sizes[m] <= 1
    /\ hist.first[m] = "error" =>
          /\ hist.errors[m] = 1
          /\ hist.sizes[m] = 0
          /\ wpc[m] = "dead"
          /\ held[m] = NoBlock
    /\ (held[m] # NoBlock \/ wpc[m] \notin {"head", "dead"}) =>
          hist.first[m] = "size"

\* C16: the first event a worker puts is one size or one error event with
\* its own prefix, and it puts at most one size event; a worker whose HEAD
\* failed puts exactly one error and terminates without taking a block; no
\* worker takes a block before it has put its size event.
C16_ProbeFirst ==
    [][\A m \in Mirrors :
          /\ ProbeOrder(m)
          /\ ProbeOrder(m)'
          /\ WTake(m) => (hist.first[m] = "size" /\ hist.sizes[m] = 1)
          /\ (hist.first[m] = "none" /\ hist'.first[m] # "none") =>
                /\ status_queue' # <<>>
                /\ status_queue'[Len(status_queue')][1] = m
                /\ status_queue'[Len(status_queue')][2] = hist'.first[m]]_vars

\* One worker's HEAD failed and it terminated; the other took a block after
\* its size event.
C16_Witness ==
    /\ \E m \in Mirrors :
          hist.first[m] = "error" /\ wpc[m] = "dead" /\ hist.errors[m] = 1
    /\ \E m \in Mirrors :
          hist.first[m] = "size" /\ held[m] # NoBlock

\* C17: when create_file's scope exits without error a file exists at the
\* path; a file that already existed there is left as it was and the new
\* anonymous file is dropped; when the scope exits with an error nothing
\* is linked; of two writers of one name the first to link wins.  No step
\* ever changes or removes an existing file.
C17_CreateFileFrame ==
    [][/\ \A m \in Mirrors :
             /\ CfExit(m) =>
                   LET name == BlockName(held[m])
                   IN  /\ name \in DOMAIN files'
                       /\ name \in DOMAIN files => files' = files
                       /\ name \notin DOMAIN files =>
                              /\ files'[name] = anon[m][1]
                              /\ DOMAIN files' = DOMAIN files \cup {name}
             /\ CfRaise(m) => files' = files
       /\ \A name \in DOMAIN files :
             name \in DOMAIN files' /\ files'[name] = files[name]]_vars

\* A second writer has finished other contents for a name that the first
\* writer has linked already.
C17_Witness ==
    \E m \in Mirrors :
        /\ wpc[m] = "stream"
        /\ BlockName(held[m]) \in DOMAIN files
        /\ anon[m][2] = Len(anon[m][1])
        /\ anon[m][1] # files[BlockName(held[m])]
        /\ \A n \in Mirrors \ {m} : wpc[n] = "idle"

\* The supervisor handles a size event in this step.
FirstSize == SupSize /\ size = NoSize
LaterEqualSize == SupSize /\ size # NoSize /\ Head(status_queue)[3] = size

\* C18: size is set once, by the first size event handled (a size of 0
\* included), and never changes in the run; at that moment the blocks are
\* planned and each is put once on the work queue and into todo; a later
\* size event with the same size enqueues nothing and only takes the
\* reporting mirror out of todo.
C18_SizeSetOnce ==
    [][/\ (SameRun /\ size # NoSize) =>
              (size' = size /\ all_blocks' = all_blocks)
       /\ (SameRun /\ all_blocks' # all_blocks) => FirstSize
       /\ FirstSize =>
              /\ size' = Head(status_queue)[3]
              /\ all_blocks' = make_blocks(size')
              /\ \A b \in Range(all_blocks') :
                    /\ Cardinality({i \in 1 .. Len(work_queue') :
                                       work_queue'[i] = b}) = 1
                    /\ b \in todo'.blocks
              /\ Len(work_queue') = Len(all_blocks')
              /\ todo'.blocks = Range(all_blocks')
              /\ todo'.mirrors = todo.mirrors \ {Head(status_queue)[1]}
       /\ LaterEqualSize =>
              /\ work_queue' = work_queue
              /\ todo'.blocks = todo.blocks
              /\ todo'.mirrors = todo.mirrors \ {Head(status_queue)[1]}
              /\ spc' = "loop"]_vars

\* Both mirrors' size events were handled after two blocks were planned,
\* the second one changing nothing but todo.
C18_Witness ==
    /\ Running
    /\ spc = "loop"
    /\ size # NoSize
    /\ Len(all_blocks) = 2
    /\ todo.mirrors = {}
    /\ todo.blocks # {}
    /\ \A m \in Mirrors : hist.sizes[m] = 1 /\ hist.reported[m] = size

\* Mirror m's first report (its size event or its first error event) is
\* still on the status queue.
FirstReportWaiting(m) ==
    \E i \in 1 .. Len(status_queue) :
        /\ status_queue[i] # NoneEvent
        /\ status_queue[i][1] = m
        /\ \/ status_queue[i][2] = "size"
           \/ status_queue[i][2] = "error" /\ hist.first[m] = "error"

\* The supervisor has handled a size or an error event of mirror m.
FirstReportHandled(m) == hist.first[m] # "none" /\ ~FirstReportWaiting(m)

\* C19: the supervisor starts assembly, and emits finish(), only after it
\* has handled a size or an error event of every mirror, even when all
\* blocks are reported already: until then the mirror is in todo.
C19_EveryMirrorReportsFirst ==
    /\ (Running /\ spc \in {"unlink", "finished"}) =>
          \A m \in Mirrors : FirstReportHandled(m)
    /\ (Running /\ spc = "loop") =>
          \A m \in Mirrors : ~FirstReportHandled(m) => m \in todo.mirrors

\* Every block is reported and handled, and the supervisor still waits in
\* its loop for a mirror that has put no event yet.
C19_Witness ==
    /\ Running
    /\ spc = "loop"
    /\ all_blocks # <<>>
    /\ todo.blocks = {}
    /\ status_queue = <<>>
    /\ ui.last = "refresh"
    /\ \E m \in Mirrors : hist.first[m] = "none" /\ m \in todo.mirrors

\* C20: ui.start() is called once and first; when download() has returned
\* normally exactly one of finish() and fatal() was called, once and last,
\* finish() for a success and fatal() otherwise; neither is called while
\* download() runs on or when it raises, and no reporter operation follows
\* either of them.
C20_ReporterProtocol ==
    /\ ui.starts = 1
    /\ ui.ends <= 1
    /\ ~ui.after
    /\ spc = "finished" => (ui.ends = 1 /\ ui.last = "finish" /\ ui.fatal = "")
    /\ spc = "fatal" => (ui.ends = 1 /\ ui.last = "fatal" /\ ui.fatal # "")
    /\ spc \in {"loop", "unlink", "crashed"} =>
          (ui.ends = 0 /\ ui.last \notin {"finish", "fatal"} /\ ui.fatal = "")

\* A second run has ended with a fatal after reports of size and progress.
C20_Witness ==
    /\ run = 2
    /\ Running
    /\ spc = "fatal"
    /\ ui.last = "fatal"
    /\ ui.fatal = "inconsistent size"
    /\ \E b \in Range(all_blocks) : Reported(b) = 1

====
